---- MODULE Spec2Model ----
(***************************************************************************)
(* TIMEFOLD (src/timefold.py): the Streamlit script as a state machine.    *)
(*                                                                         *)
(* Streamlit runs the whole script once per widget interaction; the        *)
(* session state (stage, history, agents, simulation) survives between     *)
(* runs.  st.rerun() aborts the run and starts a fresh one in which no     *)
(* button reads as pressed.  An exception nobody catches ends the run at   *)
(* the raising line: what the script stored before it stays stored, what   *)
(* it would have drawn after it is not on the page.  A script run is       *)
(* split only where it blocks on the external model (generate_content):    *)
(* the answer of the model is an input of the environment.                 *)
(***************************************************************************)
EXTENDS Naturals, Sequences, FiniteSets

VARIABLES
    stage,          \* st.session_state.stage
    history,        \* st.session_state.history
    agents,         \* st.session_state.agents (None or a council)
    simulation,     \* st.session_state.simulation (None or a batch)
    image_part,     \* sidebar: an image is uploaded (widget state)
    pc,             \* "idle", "rerun", "recruit_call" or "sim_call"
    click,          \* the widget interaction the current run handles
    inject_chaos,   \* local of the SIMULATING branch (line 256)
    request,        \* the model request in flight
    ui,             \* main-area widgets drawn by the last finished run
    fault,          \* the uncaught exception that ended the last run
    calls,          \* model calls since the last user action
    chaos_requested \* Inject Chaos was pressed since a simulation was last stored

vars == <<stage, history, agents, simulation, image_part, pc, click,
          inject_chaos, request, ui, fault, calls, chaos_requested>>

session == <<stage, history, agents, simulation>>

-----------------------------------------------------------------------------
(* Bounds of the model *)

MaxHist == 3        \* history entries kept before path selection is capped
MaxScen == 4        \* largest scenario list a model answer carries
MaxCouncil == 4     \* largest persona list a model answer carries

-----------------------------------------------------------------------------
(* Python values *)

None == <<>>
Some(x) == <<x>>
Get(o) == o[1]

Truthy_Always(o) == TRUE

Truthy_Never(o) == FALSE

\* truth value of an Optional dict that is never the empty dict
Truthy(o) == o # None

-----------------------------------------------------------------------------
(* Data the model can answer with *)

PersonaNames == <<"Vega", "Orion", "Lyra", "Atlas", "Nova", "Juno">>
Stances == {"Risk-Averse", "Disruptive"}

AgentProfile(i, s) ==
    [name |-> PersonaNames[i], role |-> "Analyst", stance |-> s, avatar |-> "*"]

\* a Council answer: response_schema fixes the shape, not the list length
CouncilOf(n, s) == [agents |-> [i \in 1..n |-> AgentProfile(i, s)]]

Councils == { CouncilOf(n, s) : n \in 2..MaxCouncil, s \in Stances }

ScenarioTitles == <<"Path A", "Path B", "Path C", "Path D", "Path E", "Path F">>
ScenarioIds == <<"sc_1", "sc_2", "sc_3", "sc_4", "sc_5", "sc_6">>
RiskLevels == <<"Low", "Medium", "High", "Critical", "Low", "Medium">>

ScenarioNode(i) ==
    [id |-> ScenarioIds[i],
     title |-> ScenarioTitles[i],
     description |-> ScenarioTitles[i],
     probability |-> i,
     time_horizon |-> "Mid Term (1-2y)",
     risk_level |-> RiskLevels[i],
     impact_score |-> i,
     data_confidence |-> i,
     assumption_stability |-> i,
     reasoning_trace |-> ScenarioIds[i]]

\* a SimulationOutput answer
SimulationOutput(n, alert) ==
    [scenarios |-> [i \in 1..n |-> ScenarioNode(i)],
     synthesis |-> "synthesis",
     black_swan_alert |-> alert]

Batches == { SimulationOutput(n, a) : n \in 0..MaxScen, a \in {None, Some("alert")} }

-----------------------------------------------------------------------------
(* Widgets *)

\* widget w (button i of a row of buttons), used while the session was in stage
\* at and a simulation was held (held) or not
Click(w, i, at, held) == [w |-> w, i |-> i, at |-> at, held |-> held]
NoClick == Click("none", 0, "", FALSE)

NoChart == [nodes |-> <<>>, edges |-> <<>>]
NoReport == <<>>

\* what a run has put on the page: widgets, Explore buttons, the graph of
\* st.graphviz_chart and the data of st.download_button
RenderedPage(ws, n, chart, report) ==
    [widgets |-> ws, btns |-> n, chart |-> chart, report |-> report]

Page(ws, n) == RenderedPage(ws, n, NoChart, NoReport)

InputPage == Page({"preset", "init"}, 0)
SidebarOnly == Page({}, 0)

\* the INPUT page with the warning of line 221 on it
WarningPage == Page({"preset", "init", "warning"}, 0)

Presets == <<"Bitcoin crashes below $30k, triggering global regulatory crackdown.",
             "A new respiratory virus with high transmission rate is detected in major transit hubs.",
             "UN passes a resolution banning autonomous AI development above a certain compute threshold.">>

UserTexts == {"", "A sudden collapse in the global lithium supply chain"}

-----------------------------------------------------------------------------
(* Prompts *)

ChaosInstruction == "INJECT A BLACK SWAN EVENT"

NoRequest ==
    [kind |-> "none", context |-> "", agents_desc |-> <<>>,
     chaos_prompt |-> "", image |-> FALSE]

\* recruit_agents, up to the call
RecruitRequest(context, img) ==
    [kind |-> "recruit", context |-> context, agents_desc |-> <<>>,
     chaos_prompt |-> "", image |-> img]

SimRequest_NoChaos(context, council, img, chaos) ==
    [kind |-> "sim", context |-> context,
     agents_desc |-> [i \in 1..Len(council.agents) |->
                        <<council.agents[i].name, council.agents[i].role,
                          council.agents[i].stance>>],
     chaos_prompt |-> "",
     image |-> img]

\* run_simulation, up to the call
SimRequest(context, council, img, chaos) ==
    [kind |-> "sim", context |-> context,
     agents_desc |-> [i \in 1..Len(council.agents) |->
                        <<council.agents[i].name, council.agents[i].role,
                          council.agents[i].stance>>],
     chaos_prompt |-> IF chaos THEN ChaosInstruction ELSE "",
     image |-> img]

last_context == history[Len(history)].description

-----------------------------------------------------------------------------
(* draw_advanced_tree, lines 141-166 *)

\* node names: f"H_{i}" and f"OPT_{opt['id']}"
NodeId(kind, n, id) == [kind |-> kind, n |-> n, id |-> id]
H(i) == NodeId("H", i, "")
OPT(id) == NodeId("OPT", 0, id)

\* str.lower() on the risk labels of the schema (line 73)
Lower(x) ==
    CASE x = "Low" -> "low"
      [] x = "Medium" -> "medium"
      [] x = "High" -> "high"
      [] x = "Critical" -> "critical"
      [] OTHER -> x

\* sub in x, for x a lowered risk label: none of the four holds another
Contains(x, sub) == x = sub

\* line 158
RiskColor(risk_level) ==
    LET risk == Lower(risk_level) IN
    IF Contains(risk, "critical") THEN "#8B0000"
    ELSE IF Contains(risk, "high") THEN "#B22222"
    ELSE IF Contains(risk, "low") THEN "#006400"
    ELSE "#003366"

Label(title, time_horizon, probability) ==
    [title |-> title, time_horizon |-> time_horizon, probability |-> probability]

\* dot.node(...), lines 150 and 164
SpineNode(i, step) ==
    [id |-> H(i), label |-> Label(step.title, "", 0), shape |-> "box",
     fillcolor |-> "#21262D"]

LeafNode(opt) ==
    [id |-> OPT(opt.id),
     label |-> Label(opt.title, opt.time_horizon, opt.probability),
     shape |-> "note", fillcolor |-> RiskColor(opt.risk_level)]

\* dot.edge(...), lines 151 and 165
Edge(from, to, label) == [from |-> from, to |-> to, label |-> label]

\* lines 154-155: options.get("scenarios", []) when options is truthy
Options(options) == IF Truthy(options) THEN Get(options).scenarios ELSE <<>>

draw_advanced_tree_FromFirst(hist, options) ==
    LET opts == Options(options) IN
    [nodes |-> [i \in 1..Len(hist) |-> SpineNode(i - 1, hist[i])]
                 \o [k \in 1..Len(opts) |-> LeafNode(opts[k])],
     edges |-> [i \in 1..(Len(hist) - 1) |-> Edge(H(i - 1), H(i), <<>>)]
                 \o [k \in 1..Len(opts) |->
                       Edge(H(0), OPT(opts[k].id), <<"Risk: ", opts[k].risk_level>>)]]

\* the nodes and the edges in the order the calls add them
draw_advanced_tree(hist, options) ==
    LET opts == Options(options)
        last_id == H(Len(hist) - 1)
    IN
    [nodes |-> [i \in 1..Len(hist) |-> SpineNode(i - 1, hist[i])]
                 \o [k \in 1..Len(opts) |-> LeafNode(opts[k])],
     edges |-> [i \in 1..(Len(hist) - 1) |-> Edge(H(i - 1), H(i), <<>>)]
                 \o [k \in 1..Len(opts) |->
                       Edge(last_id, OPT(opts[k].id), <<"Risk: ", opts[k].risk_level>>)]]

-----------------------------------------------------------------------------
(* generate_markdown_report, lines 128-139 *)

\* values time.strftime can give
Times == {"2026-11-04 21:00:00", "2026-11-04 21:00:01"}

\* one line of the report
Line(kind, n, text, risk, prob) ==
    [kind |-> kind, n |-> n, text |-> text, risk |-> risk, prob |-> prob]

\* 'key' in step
HasKey(step, key) == key \in DOMAIN step

StepSection_AlwaysMetrics(i, step) ==
    <<Line("step", i, step.title, "", 0),
      Line("description", 0, step.description, "", 0)>>
    \o (IF HasKey(step, "reasoning_trace")
          THEN <<Line("reasoning", 0, step.reasoning_trace, "", 0)>>
          ELSE <<>>)
    \o <<Line("metrics", 0, "",
               IF HasKey(step, "risk_level") THEN step.risk_level ELSE "",
               IF HasKey(step, "probability") THEN step.probability ELSE 0)>>
    \o <<Line("rule", 0, "---", "", 0)>>

\* lines 132-138, for step number i (i+1 of the loop)
StepSection(i, step) ==
    <<Line("step", i, step.title, "", 0),
      Line("description", 0, step.description, "", 0)>>
    \o (IF HasKey(step, "reasoning_trace")
          THEN <<Line("reasoning", 0, step.reasoning_trace, "", 0)>>
          ELSE <<>>)
    \o (IF HasKey(step, "risk_level")
          THEN <<Line("metrics", 0, "", step.risk_level, step.probability)>>
          ELSE <<>>)
    \o <<Line("rule", 0, "---", "", 0)>>

RECURSIVE StepSections(_, _)
\* the loop of line 131, from step number i on
StepSections(hist, i) ==
    IF i > Len(hist) THEN <<>>
    ELSE StepSection(i, hist[i]) \o StepSections(hist, i + 1)

generate_markdown_report(hist, now) ==
    <<Line("heading", 0, "# TIMEFOLD STRATEGIC REPORT", "", 0),
      Line("date", 0, now, "", 0)>>
    \o StepSections(hist, 1)

-----------------------------------------------------------------------------
(* Initial state: a fresh session after its first script run *)

Init ==
    /\ stage = "INPUT"
    /\ history = <<>>
    /\ agents = None
    /\ simulation = None
    /\ image_part = FALSE
    /\ pc = "idle"
    /\ click = NoClick
    /\ inject_chaos = FALSE
    /\ request = NoRequest
    /\ ui = InputPage
    /\ fault = "none"
    /\ calls = 0
    /\ chaos_requested = FALSE

-----------------------------------------------------------------------------
(* The script body, lines 185-320 *)

CouncilColumns == 3

\* the counts the prompts ask the model for (lines 89, 113)
CouncilSize == 3
ScenarioCount == 3

DefaultText == "Analyze the uploaded visual data."

\* the run reaches its last line, or an uncaught exception exc ends it
EndRun(page, exc) ==
    /\ pc' = "idle"
    /\ ui' = page
    /\ fault' = exc
    /\ click' = NoClick
    /\ inject_chaos' = FALSE
    /\ request' = NoRequest

\* st.rerun(): lines 202, 206, 210, 219, 250, 311
StRerun(c) ==
    /\ pc' = "rerun"
    /\ ui' = SidebarOnly
    /\ fault' = "none"
    /\ click' = c
    /\ inject_chaos' = FALSE
    /\ request' = NoRequest

\* model.generate_content(inputs): lines 95, 122
GenerateContent(where, req, c, chaos) ==
    /\ pc' = where
    /\ request' = req
    /\ click' = c
    /\ inject_chaos' = chaos
    /\ fault' = "none"
    /\ ui' = SidebarOnly

\* lines 200-202, 204-206, 208-210, 217-219
Seed(description, c) ==
    /\ history' = Append(history, [title |-> "START", description |-> description])
    /\ stage' = "RECRUITING"
    /\ UNCHANGED <<agents, simulation>>
    /\ StRerun(c)

HasInput_Always(text, img) == TRUE

\* line 215: user_input or image_part
HasInput(text, img) == text # "" \/ img

\* lines 193-221
InputStage(c, text, n) ==
    /\ IF c.w = "preset"
         THEN Seed(Presets[c.i], c)
         ELSE IF c.w = "init"
                THEN IF HasInput(text, image_part')
                       THEN Seed(IF text # "" THEN text ELSE DefaultText, c)
                       ELSE \* line 221: st.warning
                            /\ UNCHANGED session
                            /\ EndRun(WarningPage, "none")
                ELSE /\ UNCHANGED session
                     /\ EndRun(InputPage, "none")
    /\ calls' = n

\* lines 224-231: every run of the RECRUITING branch calls recruit_agents
RecruitingStage(c, n) ==
    /\ GenerateContent("recruit_call", RecruitRequest(last_context, image_part'), c, FALSE)
    /\ calls' = n + 1
    /\ UNCHANGED session

ExploreThisPath_ReplaceLast(sc) ==
    /\ history' = [history EXCEPT ![Len(history)] = sc]
    /\ simulation' = None
    /\ agents' = None
    /\ stage' = "RECRUITING"

ExploreThisPath_ToInput(sc) ==
    /\ history' = Append(history, sc)
    /\ simulation' = None
    /\ agents' = None
    /\ stage' = "INPUT"

ExploreThisPath_KeepSimulation(sc) ==
    /\ history' = Append(history, sc)
    /\ simulation' = simulation
    /\ agents' = None
    /\ stage' = "RECRUITING"

ExploreThisPath_KeepCouncil(sc) ==
    /\ history' = Append(history, sc)
    /\ simulation' = None
    /\ agents' = agents
    /\ stage' = "RECRUITING"

\* lines 307-310
ExploreThisPath(sc) ==
    /\ history' = Append(history, sc)
    /\ simulation' = None
    /\ agents' = None
    /\ stage' = "RECRUITING"

Render_ButtonWithoutSimulation(sim, c) ==
    IF sim = None
      THEN /\ simulation' = sim
           /\ UNCHANGED <<stage, history, agents>>
           /\ EndRun(Page({"chaos", "download"}, 1), "none")
      ELSE LET scenarios == Get(sim).scenarios IN
           IF c.w = "btn" /\ c.i <= Len(scenarios)
             THEN /\ ExploreThisPath(scenarios[c.i])
                  /\ StRerun(c)
             ELSE /\ simulation' = sim
                  /\ UNCHANGED <<stage, history, agents>>
                  /\ EndRun(Page({"chaos", "download"}, Len(scenarios)), "none")

\* lines 266-320, with st.session_state.simulation = sim (what the graph of
\* line 269 and the report of line 314 hold is modelled by DrawTree and
\* ExportReport below)
Render(sim, c) ==
    IF sim = None
      THEN \* line 273: None['synthesis']
           /\ simulation' = sim
           /\ UNCHANGED <<stage, history, agents>>
           /\ EndRun(Page({"chaos"}, 0), "TypeError")
      ELSE LET scenarios == Get(sim).scenarios IN
           IF Len(scenarios) = 0
             THEN \* line 282: st.columns(0)
                  /\ simulation' = sim
                  /\ UNCHANGED <<stage, history, agents>>
                  /\ EndRun(Page({"chaos"}, 0), "StreamlitAPIException")
             ELSE IF c.w = "btn" /\ c.i <= Len(scenarios)
                    THEN /\ ExploreThisPath(scenarios[c.i])
                         /\ StRerun(c)
                    ELSE /\ simulation' = sim
                         /\ UNCHANGED <<stage, history, agents>>
                         /\ EndRun(Page({"chaos", "download"}, Len(scenarios)), "none")

\* lines 252-263
SimulatingStage(c, n) ==
    LET chaos == (c.w = "chaos")
        sim == IF chaos THEN None ELSE simulation
    IN  IF ~Truthy(sim)
          THEN /\ simulation' = sim
               /\ UNCHANGED <<stage, history, agents>>
               /\ GenerateContent("sim_call",
                      SimRequest(last_context, Get(agents), image_part', chaos), c, chaos)
               /\ calls' = n + 1
          ELSE /\ Render(sim, c)
               /\ calls' = n

\* one script run, from line 185 to its first model call or to its end
\* (n: the model calls the user's action has caused before this run)
Script(c, text, n) ==
    /\ CASE stage = "INPUT" -> InputStage(c, text, n)
         [] stage = "RECRUITING" -> RecruitingStage(c, n)
         [] stage = "SIMULATING" -> SimulatingStage(c, n)
    /\ chaos_requested' = (chaos_requested \/ (stage = "SIMULATING" /\ c.w = "chaos"))

-----------------------------------------------------------------------------
(* The model answers *)

RecruitFailed_Advance ==
    /\ pc = "recruit_call"
    /\ UNCHANGED <<history, agents, simulation>>
    /\ IF click.w = "start"
         THEN /\ stage' = "SIMULATING"
              /\ StRerun(click)
         ELSE /\ stage' = stage
              /\ EndRun(SidebarOnly, "RecruitError")
    /\ UNCHANGED <<image_part, calls, chaos_requested>>

\* lines 95-96 raise and nothing catches: the run ends inside line 231
RecruitFailed ==
    /\ pc = "recruit_call"
    /\ UNCHANGED session
    /\ EndRun(SidebarOnly, "RecruitError")
    /\ UNCHANGED <<image_part, calls, chaos_requested>>

StartSimulation_Always(c) ==
    /\ stage' = "SIMULATING"
    /\ StRerun(c)

\* lines 248-250
StartSimulation(c) ==
    IF c.w = "start"
      THEN /\ stage' = "SIMULATING"
           /\ StRerun(c)
      ELSE /\ stage' = stage
           /\ EndRun(Page({"start"}, 0), "none")

\* lines 231-250, recruit_agents having returned council
RecruitReturned(council) ==
    /\ pc = "recruit_call"
    /\ agents' = Some(council)
    /\ UNCHANGED <<history, simulation>>
    /\ IF Len(council.agents) > CouncilColumns
         THEN \* line 237: cols[3]
              /\ stage' = stage
              /\ EndRun(SidebarOnly, "IndexError")
         ELSE StartSimulation(click)
    /\ UNCHANGED <<image_part, calls, chaos_requested>>

\* lines 121-126, then lines 263-320
SimulationReturned(result) ==
    /\ pc = "sim_call"
    /\ Render(result, click)
    /\ UNCHANGED <<image_part, calls>>
    /\ chaos_requested' = (chaos_requested /\ result = None)

RecruitAnswer == \E council \in Councils : RecruitReturned(council)

SimulationAnswer == \E batch \in Batches : SimulationReturned(Some(batch))

\* the except branch of run_simulation, lines 124-126
SimulationFailed == SimulationReturned(None)

-----------------------------------------------------------------------------
(* The user *)

\* a widget interaction: the script runs with that widget's new value
Interact(w, i, text) ==
    /\ pc = "idle"
    /\ Script(Click(w, i, stage, Truthy(simulation)), text, 0)

ResetSystem_KeepHistory ==
    /\ pc = "idle"
    /\ stage' = "INPUT"
    /\ history' = history
    /\ agents' = None
    /\ simulation' = None
    /\ StRerun(Click("reset", 0, stage, Truthy(simulation)))
    /\ calls' = 0
    /\ chaos_requested' = FALSE
    /\ UNCHANGED image_part

\* lines 181-183, and lines 185-188 of the run that st.rerun() starts
ResetSystem ==
    /\ pc = "idle"
    /\ stage' = "INPUT"
    /\ history' = <<>>
    /\ agents' = None
    /\ simulation' = None
    /\ StRerun(Click("reset", 0, stage, Truthy(simulation)))
    /\ calls' = 0
    /\ chaos_requested' = FALSE
    /\ UNCHANGED image_part

\* line 170
ToggleReasoning ==
    /\ UNCHANGED image_part
    /\ Interact("toggle", 0, "")

\* lines 172-178
UploadImage ==
    /\ image_part' = ~image_part
    /\ Interact("upload", 0, "")

\* lines 199, 203, 207
Preset ==
    \E k \in 1..Len(Presets) :
        /\ "preset" \in ui.widgets
        /\ UNCHANGED image_part
        /\ Interact("preset", k, "")

\* lines 212-221, with user_input = text
InitializeWith(text) ==
    /\ "init" \in ui.widgets
    /\ UNCHANGED image_part
    /\ Interact("init", 0, text)

InitializeSystem == \E text \in UserTexts : InitializeWith(text)

\* line 248
ConfirmStart ==
    /\ "start" \in ui.widgets
    /\ UNCHANGED image_part
    /\ Interact("start", 0, "")

\* line 257
InjectChaos ==
    /\ "chaos" \in ui.widgets
    /\ UNCHANGED image_part
    /\ Interact("chaos", 0, "")

\* line 306 (button i is the one keyed btn_{i-1})
ExplorePath ==
    \E i \in 1..ui.btns :
        /\ Len(history) < MaxHist
        /\ UNCHANGED image_part
        /\ Interact("btn", i, "")

\* line 315
DownloadReport ==
    /\ "download" \in ui.widgets
    /\ UNCHANGED image_part
    /\ Interact("download", 0, "")

\* the run st.rerun() starts: no button reads as pressed
Rerun ==
    /\ pc = "rerun"
    /\ UNCHANGED image_part
    /\ Script(NoClick, "", calls)

Next ==
    \/ ResetSystem
    \/ ToggleReasoning
    \/ UploadImage
    \/ Preset
    \/ InitializeSystem
    \/ ConfirmStart
    \/ InjectChaos
    \/ ExplorePath
    \/ DownloadReport
    \/ Rerun
    \/ RecruitAnswer
    \/ RecruitFailed
    \/ SimulationAnswer
    \/ SimulationFailed

Spec == Init /\ [][Next]_vars

-----------------------------------------------------------------------------
(* The two pure functions of the SIMULATING page, applied to every history *)
(* and simulation the session can hold (lines 269 and 314)                 *)

SeedEntries ==
    { [title |-> "START", description |-> d] :
        d \in {Presets[k] : k \in 1..Len(Presets)} \cup (UserTexts \ {""}) \cup {DefaultText} }

ScenarioNodes == { ScenarioNode(i) : i \in 1..MaxScen }

\* the empty history, and a seed followed by chosen scenarios
Histories ==
    {<<>>} \cup
    { <<seed>> \o chosen :
        seed \in SeedEntries,
        chosen \in UNION { [1..n -> ScenarioNodes] : n \in 0..(MaxHist - 1) } }

RenderInit ==
    /\ stage = "SIMULATING"
    /\ history \in Histories
    /\ agents = None
    /\ simulation \in {None} \cup { Some(b) : b \in Batches }
    /\ image_part = FALSE
    /\ pc = "idle"
    /\ click = NoClick
    /\ inject_chaos = FALSE
    /\ request = NoRequest
    /\ ui = Page({}, 0)
    /\ fault = "none"
    /\ calls = 0
    /\ chaos_requested = FALSE

\* line 269: st.graphviz_chart(draw_advanced_tree(history, simulation))
DrawTree ==
    /\ Len(history) >= 1
    /\ ui' = [ui EXCEPT !.chart = draw_advanced_tree(history, simulation)]
    /\ UNCHANGED <<stage, history, agents, simulation, image_part, pc, click,
                   inject_chaos, request, fault, calls, chaos_requested>>

\* line 314: report_md = generate_markdown_report(history)
ExportReport ==
    /\ \E now \in Times :
         ui' = [ui EXCEPT !.report = generate_markdown_report(history, now)]
    /\ UNCHANGED <<stage, history, agents, simulation, image_part, pc, click,
                   inject_chaos, request, fault, calls, chaos_requested>>

RenderNext == DrawTree \/ ExportReport

RenderSpec == RenderInit /\ [][RenderNext]_vars

-----------------------------------------------------------------------------
(* Properties *)

Scenarios == Get(simulation).scenarios

\* C1: pressing "Explore This Path" on scenario i of the held batch appends
\* exactly that scenario record as the last history entry (one entry more,
\* the earlier ones untouched), unsets simulation and council and sets the
\* stage to RECRUITING; a button is on the page for every scenario of the
\* held batch.
C1_ExploreAppendsScenario ==
    /\ [](pc = "idle" /\ stage = "SIMULATING" /\ simulation # None /\ fault = "none"
            => ui.btns = Len(Scenarios))
    /\ [][ExplorePath =>
            /\ stage = "SIMULATING"
            /\ simulation # None
            /\ click'.w = "btn"
            /\ click'.i \in 1..Len(Scenarios)
            /\ history' = Append(history, Scenarios[click'.i])
            /\ Len(history') = Len(history) + 1
            /\ SubSeq(history', 1, Len(history)) = history
            /\ simulation' = None
            /\ agents' = None
            /\ stage' = "RECRUITING"]_vars

C1_Witness ==
    /\ pc = "rerun"
    /\ click.w = "btn"
    /\ click.i = 2
    /\ stage = "RECRUITING"
    /\ agents = None
    /\ simulation = None
    /\ Len(history) = 3
    /\ history[3] = ScenarioNode(2)

Cleared ==
    /\ stage = "INPUT"
    /\ history = <<>>
    /\ agents = None
    /\ simulation = None

\* C2: whenever the page is idle, in any stage and also after a run that
\* ended in an exception, Reset System can be pressed; pressing it leaves the
\* stage INPUT, the history empty, no council and no simulation, and the run
\* it starts keeps the session so.
C2_ResetClearsSession ==
    /\ [](pc = "idle" => ENABLED ResetSystem)
    /\ [][ResetSystem => Cleared']_vars
    /\ [][(click.w = "reset" /\ Rerun) => (Cleared' /\ pc' = "idle")]_vars

C2_Witness ==
    /\ pc = "rerun"
    /\ click.w = "reset"
    /\ click.at = "SIMULATING"
    /\ click.held
    /\ Cleared

\* C3: the stage goes from RECRUITING to SIMULATING only in the run that
\* handles a press of START SIMULATION, after its recruitment call returned.
C3_SimulatingOnlyOnConfirm ==
    [][(stage = "RECRUITING" /\ stage' = "SIMULATING")
          => (click.w = "start" /\ pc = "recruit_call" /\ pc' = "rerun")]_vars

C3_Witness ==
    /\ stage = "SIMULATING"
    /\ pc = "rerun"
    /\ click.w = "start"
    /\ click.at = "RECRUITING"

\* C4: pressing Inject Chaos while a simulation is held unsets the held
\* simulation, keeps stage SIMULATING, history and council, and the
\* simulation call then issued carries the chaos instruction in its prompt.
C4_ChaosClearsAndFlags ==
    [][(InjectChaos /\ simulation # None) =>
          /\ simulation' = None
          /\ stage = "SIMULATING"
          /\ stage' = "SIMULATING"
          /\ history' = history
          /\ agents' = agents
          /\ pc' = "sim_call"
          /\ request'.kind = "sim"
          /\ request'.chaos_prompt = ChaosInstruction]_vars

C4_Witness ==
    /\ pc = "sim_call"
    /\ click.w = "chaos"
    /\ click.held
    /\ simulation = None
    /\ stage = "SIMULATING"
    /\ request.chaos_prompt = ChaosInstruction

\* C5: a failed simulation call leaves stage SIMULATING, history and council
\* as they were and the simulation unset, and the next run of the SIMULATING
\* branch (any interaction but Reset) issues a simulation call again.
C5_FailedSimulationRetried ==
    /\ [][SimulationFailed =>
            /\ stage = "SIMULATING"
            /\ stage' = "SIMULATING"
            /\ history' = history
            /\ agents' = agents
            /\ simulation' = None
            /\ pc' = "idle"]_vars
    /\ [][(pc = "idle" /\ stage = "SIMULATING" /\ simulation = None /\ ~ResetSystem)
            => (pc' = "sim_call" /\ request'.kind = "sim" /\ stage' = "SIMULATING")]_vars

C5_Witness ==
    /\ pc = "sim_call"
    /\ click.at = "SIMULATING"
    /\ ~click.held
    /\ click.w = "toggle"
    /\ request.kind = "sim"

\* C6: a run of the SIMULATING branch whose simulation call failed ends
\* without an uncaught exception.
C6_FailedSimulationRunCompletes ==
    (pc = "idle" /\ stage = "SIMULATING" /\ simulation = None) => fault = "none"

\* C7: a failed recruitment call leaves the stage RECRUITING, the history
\* unchanged and stores no council, and does not start the rerun that a
\* press of START SIMULATION would, whether or not the button was pressed.
C7_FailedRecruitmentStays ==
    [][RecruitFailed =>
          /\ stage = "RECRUITING"
          /\ stage' = "RECRUITING"
          /\ history' = history
          /\ agents' = agents
          /\ simulation' = simulation
          /\ pc' = "idle"
          /\ "start" \notin ui'.widgets]_vars

C7_Witness ==
    /\ pc = "idle"
    /\ stage = "RECRUITING"
    /\ fault = "RecruitError"
    /\ agents # None

\* C8: the stage is SIMULATING, and a simulation call is made, only with a
\* current council of exactly 3 personas.
C8_SimulatingOnlyWithThreePersonas ==
    /\ stage = "SIMULATING" => (agents # None /\ Len(Get(agents).agents) = CouncilSize)
    /\ request.kind = "sim" => Len(request.agents_desc) = CouncilSize

\* C9: a path selection is performed, appending to history, only from a
\* batch of exactly 3 scenario records.
C9_SelectionOnlyFromThreeScenarios ==
    [][(stage = "SIMULATING" /\ Len(history') > Len(history))
          => (simulation # None /\ Len(Scenarios) = ScenarioCount)]_vars

\* C10: a user action causes at most one model call, counting the run that
\* handles it and the rerun it starts.
C10_AtMostOneCallPerAction ==
    calls <= 1

\* C11: pressing INITIALIZE SYSTEM with no text and no image leaves the stage
\* INPUT, the history empty, council and simulation unset, and makes no
\* model call (no rerun is started either).
C11_EmptyInputRejected ==
    [][(InitializeWith("") /\ ~image_part) =>
          /\ stage = "INPUT"
          /\ Cleared'
          /\ pc' = "idle"
          /\ calls' = 0
          /\ request'.kind = "none"
          /\ "warning" \in ui'.widgets]_vars

C11_Witness ==
    /\ "warning" \in ui.widgets
    /\ pc = "idle"
    /\ ~image_part
    /\ Cleared
    /\ calls = 0

IsPrefix(s, t) == Len(s) <= Len(t) /\ SubSeq(t, 1, Len(s)) = s

\* C12: between resets history is append-only: every step that is not a
\* reset leaves the earlier history a prefix of the later one.
C12_HistoryAppendOnly ==
    [][~ResetSystem => IsPrefix(history, history')]_vars

C12_Witness ==
    /\ Len(history) = 3
    /\ stage = "SIMULATING"
    /\ simulation # None
    /\ pc = "idle"

\* C13: Explore This Path buttons are on the page only in stage SIMULATING
\* with a simulation of at least one scenario held; a selection happens only
\* then, and with the simulation unset no selection is enabled and no step
\* makes the history grow.
C13_SelectionNeedsSimulation ==
    /\ [](ui.btns > 0 =>
            /\ pc = "idle"
            /\ stage = "SIMULATING"
            /\ simulation # None
            /\ Len(Scenarios) >= 1
            /\ ui.btns <= Len(Scenarios))
    /\ []((pc = "idle" /\ simulation = None) => ~ENABLED ExplorePath)
    /\ [][ExplorePath => (stage = "SIMULATING" /\ simulation # None /\ Len(Scenarios) >= 1)]_vars
    /\ [][(simulation = None /\ stage = "SIMULATING") => history' = history \/ ResetSystem]_vars

C13_Witness ==
    /\ pc = "idle"
    /\ stage = "SIMULATING"
    /\ simulation = None
    /\ Len(history) = 1
    /\ history[1].title = "START"
    /\ ui.btns = 0
    /\ "chaos" \in ui.widgets

IsSpineNode(nd) == nd.id.kind = "H"
IsLeafNode(nd) == nd.id.kind = "OPT"
IsSpineEdge(e) == e.to.kind = "H"
IsLeafEdge(e) == e.to.kind = "OPT"

\* the graph g shows history hist and the scenario list opts
ShowsTree(g, hist, opts) ==
    LET n == Len(hist)
        spine == SelectSeq(g.nodes, IsSpineNode)
        leaves == SelectSeq(g.nodes, IsLeafNode)
        spineEdges == SelectSeq(g.edges, IsSpineEdge)
        leafEdges == SelectSeq(g.edges, IsLeafEdge)
    IN  /\ Len(g.nodes) = n + Len(opts)
        /\ Len(g.edges) = (n - 1) + Len(opts)
        /\ Len(spine) = n
        /\ \A i \in 1..n :
              /\ g.nodes[i] = spine[i]
              /\ spine[i].id = H(i - 1)
              /\ spine[i].label.title = hist[i].title
              /\ spine[i].shape = "box"
              /\ spine[i].fillcolor = "#21262D"
        /\ Len(spineEdges) = n - 1
        /\ \A i \in 1..(n - 1) :
              spineEdges[i] = Edge(H(i - 1), H(i), <<>>)
        /\ Len(leaves) = Len(opts)
        /\ Len(leafEdges) = Len(opts)
        /\ \A k \in 1..Len(opts) :
              /\ leaves[k].id = OPT(opts[k].id)
              /\ leaves[k].label =
                    Label(opts[k].title, opts[k].time_horizon, opts[k].probability)
              /\ leaves[k].shape = "note"
              /\ leaves[k].fillcolor =
                    (CASE opts[k].risk_level = "Critical" -> "#8B0000"
                       [] opts[k].risk_level = "High" -> "#B22222"
                       [] opts[k].risk_level = "Low" -> "#006400"
                       [] OTHER -> "#003366")
              /\ leafEdges[k].from = H(n - 1)
              /\ leafEdges[k].to = leaves[k].id
              /\ leafEdges[k].label = <<"Risk: ", opts[k].risk_level>>

\* C14: for every history of at least one entry and every simulation, the
\* drawn graph has one spine node per history entry in order, an edge from
\* each entry to the next and no other spine edge, and, when a simulation is
\* given, one leaf and one edge from the last spine node per scenario,
\* labelled with its risk level; with no simulation it has no leaf.  The
\* graph is fixed by history and simulation alone.
C14_TreeShowsHistoryAndScenarios ==
    ui.chart # NoChart =>
        /\ Len(history) >= 1
        /\ ShowsTree(ui.chart, history,
                     IF simulation = None THEN <<>> ELSE Scenarios)
        /\ simulation = None =>
              (SelectSeq(ui.chart.nodes, IsLeafNode) = <<>>
                 /\ Len(ui.chart.nodes) = Len(history))

C14_Witness ==
    /\ Len(history) = 3
    /\ simulation # None
    /\ Len(Scenarios) = 3
    /\ Len(ui.chart.nodes) = 6
    /\ Len(ui.chart.edges) = 5
    /\ ui.chart.edges[5] = Edge(H(2), OPT("sc_3"), <<"Risk: ", "High">>)

Body(r) == SubSeq(r, 3, Len(r))

\* where section k of the report body b starts, and where it ends
SectionStart(b, k) == CHOOSE p \in 1..Len(b) : b[p].kind = "step" /\ b[p].n = k
SectionEnd(b, k, n) == IF k = n THEN Len(b) ELSE SectionStart(b, k + 1) - 1
Section(b, k, n) == SubSeq(b, SectionStart(b, k), SectionEnd(b, k, n))

IsStepLine(l) == l.kind = "step"
IsReasoningLine(l) == l.kind = "reasoning"
IsMetricsLine(l) == l.kind = "metrics"

\* the report r is the export of history hist
ExportsHistory(r, hist) ==
    LET n == Len(hist)
        b == Body(r)
        steps == SelectSeq(b, IsStepLine)
    IN  /\ Len(r) >= 2
        /\ r[1].kind = "heading"
        /\ r[2].kind = "date"
        /\ r[2].text \in Times
        /\ Len(steps) = n
        /\ \A k \in 1..n : steps[k].n = k /\ steps[k].text = hist[k].title
        /\ n >= 1 => SectionStart(b, 1) = 1
        /\ \A k \in 1..n :
              LET sec == Section(b, k, n)
                  reasoning == SelectSeq(sec, IsReasoningLine)
                  metrics == SelectSeq(sec, IsMetricsLine)
              IN  /\ sec[1].kind = "step"
                  /\ sec[2].kind = "description"
                  /\ sec[2].text = hist[k].description
                  /\ sec[Len(sec)].kind = "rule"
                  /\ Len(sec) = 3 + Len(reasoning) + Len(metrics)
                  /\ IF "reasoning_trace" \in DOMAIN hist[k]
                       THEN /\ Len(reasoning) = 1
                            /\ sec[3] = reasoning[1]
                            /\ reasoning[1].text = hist[k].reasoning_trace
                       ELSE reasoning = <<>>
                  /\ IF "risk_level" \in DOMAIN hist[k]
                       THEN /\ Len(metrics) = 1
                            /\ sec[Len(sec) - 1] = metrics[1]
                            /\ metrics[1].risk = hist[k].risk_level
                            /\ metrics[1].prob = hist[k].probability
                       ELSE metrics = <<>>

\* C15: for every history the exported report has the heading, the
\* timestamp line and then one section per history entry in order (title,
\* description), with a reasoning line exactly for the entries that have a
\* reasoning trace and a risk/probability line exactly for those that have
\* a risk level; the START entry's section has neither.  Every line but the
\* timestamp is fixed by the history.
C15_ReportExportsHistory ==
    ui.report # NoReport =>
        /\ ExportsHistory(ui.report, history)
        /\ Len(history) >= 1 => Len(Section(Body(ui.report), 1, Len(history))) = 3
        /\ \A now \in Times :
              Body(generate_markdown_report(history, now)) = Body(ui.report)

C15_Witness ==
    /\ Len(history) = 3
    /\ history[2] = ScenarioNode(2)
    /\ Len(ui.report) = 2 + 3 + 5 + 5
    /\ ui.report[6].kind = "step"
    /\ ui.report[8].kind = "reasoning"
    /\ ui.report[9].kind = "metrics"

\* C16: the council current in RECRUITING stays the current council while
\* the stage is RECRUITING and when the stage goes to SIMULATING: no run of
\* the RECRUITING branch, the one handling START SIMULATION included,
\* replaces it by a newly recruited one.
C16_CouncilKeptUntilStageLeft ==
    [][(stage = "RECRUITING" /\ agents # None /\ stage' \in {"RECRUITING", "SIMULATING"})
          => agents' = agents]_vars

\* C17: with a simulation held in SIMULATING, a run caused by the reasoning
\* toggle, an upload or the report download makes no model call and leaves
\* stage, history, council and simulation as they were.
C17_HeldSimulationNotRecomputed ==
    [][(stage = "SIMULATING" /\ simulation # None
          /\ (ToggleReasoning \/ UploadImage \/ DownloadReport))
          => /\ UNCHANGED session
             /\ pc' = "idle"
             /\ calls' = 0
             /\ request'.kind = "none"]_vars

C17_Witness ==
    /\ pc = "idle"
    /\ stage = "SIMULATING"
    /\ simulation # None
    /\ Len(Scenarios) = 3
    /\ calls = 0
    /\ fault = "none"

\* C18: a simulation call carries the chaos instruction exactly when Inject
\* Chaos was pressed since a simulation was last stored.
C18_ChaosFlagFollowsRequest ==
    request.kind = "sim" =>
        ((request.chaos_prompt = ChaosInstruction) <=> chaos_requested)

\* C19: the stage changes only from INPUT to RECRUITING by a seed entry, from
\* RECRUITING to SIMULATING by the confirmation, from SIMULATING to
\* RECRUITING by a path selection, and from any stage to INPUT by a reset.
C19_StageTransitions ==
    [][stage' # stage =>
          \/ /\ stage = "INPUT" /\ stage' = "RECRUITING"
             /\ (Preset \/ InitializeSystem)
             /\ history' = <<[title |-> "START", description |-> history'[1].description]>>
          \/ /\ stage = "RECRUITING" /\ stage' = "SIMULATING"
             /\ click.w = "start"
          \/ /\ stage = "SIMULATING" /\ stage' = "RECRUITING"
             /\ ExplorePath
          \/ /\ stage' = "INPUT"
             /\ ResetSystem]_vars

C19_Witness ==
    /\ stage = "RECRUITING"
    /\ pc = "recruit_call"
    /\ Len(history) = 2
    /\ history[2] \in ScenarioNodes
    /\ agents = None

IsSeedEntry(e) == DOMAIN e = {"title", "description"} /\ e.title = "START"

\* C20: in RECRUITING and SIMULATING the history is not empty and starts
\* with the START seed entry; the seed is at the first place only and every
\* later entry is a scenario record, appended from the batch held when it
\* was selected; in INPUT the history is empty and council and simulation
\* are unset; in RECRUITING no simulation is held.
C20_SessionShape ==
    /\ [](/\ stage \in {"RECRUITING", "SIMULATING"} =>
               (Len(history) >= 1 /\ IsSeedEntry(history[1]))
          /\ \A i \in 2..Len(history) :
               ~IsSeedEntry(history[i]) /\ "id" \in DOMAIN history[i]
          /\ stage = "INPUT" => Cleared
          /\ stage = "RECRUITING" => simulation = None)
    /\ [][(stage # "INPUT" /\ Len(history') > Len(history)) =>
            /\ simulation # None
            /\ \E i \in 1..Len(Scenarios) : history' = Append(history, Scenarios[i])]_vars

C20_Witness ==
    /\ stage = "SIMULATING"
    /\ pc = "idle"
    /\ Len(history) = 3
    /\ IsSeedEntry(history[1])
    /\ history[3] \in ScenarioNodes
    /\ simulation # None

====
